---- MODULE Spec2Model ----
(***************************************************************************)
(* Model of banque.py: CompteBancaire (account), CompteEpargne (savings    *)
(* account), the journaliser_operation decorator and ExportJSONMixin.      *)
(*                                                                         *)
(* Python floats are IEEE-754 binary64.  They are modelled by a binary     *)
(* floating-point format of the same structure with fewer bits: Prec       *)
(* mantissa bits, exponents 0..EMax, a quantum of 2^-Frac, round to        *)
(* nearest with ties to even, overflow to infinity, and NaN.  A finite     *)
(* float is held as its (signed) number of quanta.  The sign of zero is    *)
(* not modelled (-0.0 == 0.0 and -0.0 < 0 is false in Python).             *)
(***************************************************************************)
EXTENDS Integers, Sequences, FiniteSets, TLC

VARIABLES compte, avant, op, args, erreur, retour, journal, origine

vars == <<compte, avant, op, args, erreur, retour, journal, origine>>

(***************************************************************************)
(* Bounds of the floating-point format.                                    *)
(***************************************************************************)
Prec == 2

Frac == 5

EMax == 5

RECURSIVE Pow2(_)
Pow2(n) == IF n = 0 THEN 1 ELSE 2 * Pow2(n - 1)

\* number of quanta in 1.0
Quanta == Pow2(Frac)

\* magnitudes (in quanta) of the finite floats
Repr == { m * Pow2(e) : m \in 0..(Pow2(Prec) - 1), e \in 0..EMax }

MaxFinite == (Pow2(Prec) - 1) * Pow2(EMax)

NaN == [k |-> "nan", v |-> 0]

PInf == [k |-> "inf", v |-> 1]

NInf == [k |-> "inf", v |-> -1]

Fin(n) == [k |-> "fin", v |-> n]

Zero == Fin(0)

Floats == {NaN, PInf, NInf} \cup { Fin(n) : n \in Repr } \cup { Fin(-n) : n \in Repr }

IsNaN(a) == a.k = "nan"

IsFinite(a) == a.k = "fin"

MaxOf(S) == CHOOSE x \in S : \A y \in S : y <= x

MinOf(S) == CHOOSE x \in S : \A y \in S : x <= y

\* The float nearest to the exact value num/den quanta (num >= 0, den > 0):
\* round to nearest, ties to even, overflow to +inf.
RoundMag(num, den) ==
    IF 2 * num >= den * (2 * MaxFinite + Pow2(EMax)) THEN PInf
    ELSE IF num >= den * MaxFinite THEN Fin(MaxFinite)
    ELSE LET lo == MaxOf({ r \in Repr : r * den <= num })
             hi == MinOf({ r \in Repr : r * den >= num })
             dl == num - lo * den
             dh == hi * den - num
         IN  IF lo = hi THEN Fin(lo)
             ELSE IF dl < dh THEN Fin(lo)
             ELSE IF dh < dl THEN Fin(hi)
             ELSE IF (lo \div (hi - lo)) % 2 = 0 THEN Fin(lo) ELSE Fin(hi)

FNeg(a) == IF IsNaN(a) THEN a ELSE [a EXCEPT !.v = -a.v]

RoundRat(num, den) ==
    IF num < 0 THEN FNeg(RoundMag(-num, den)) ELSE RoundMag(num, den)

Sign(n) == IF n < 0 THEN -1 ELSE IF n > 0 THEN 1 ELSE 0

\* float + float
FAdd(a, b) ==
    IF IsNaN(a) \/ IsNaN(b) THEN NaN
    ELSE IF a.k = "inf" THEN (IF b.k = "inf" /\ b.v # a.v THEN NaN ELSE a)
    ELSE IF b.k = "inf" THEN b
    ELSE RoundRat(a.v + b.v, 1)

\* float - float
FSub(a, b) == FAdd(a, FNeg(b))

\* float * float
FMul(a, b) ==
    IF IsNaN(a) \/ IsNaN(b) THEN NaN
    ELSE IF a.k = "inf" \/ b.k = "inf"
         THEN (IF Sign(a.v) * Sign(b.v) = 0 THEN NaN
               ELSE [k |-> "inf", v |-> Sign(a.v) * Sign(b.v)])
    ELSE RoundRat(a.v * b.v, Quanta)

\* position of a non-NaN float in the order of the extended reals
Key(a) == IF a.k = "inf" THEN a.v * (MaxFinite + 1) ELSE a.v

\* the comparisons <, <=, >, == of floats: false when an operand is NaN
FLt(a, b) == ~IsNaN(a) /\ ~IsNaN(b) /\ Key(a) < Key(b)

FLe(a, b) == ~IsNaN(a) /\ ~IsNaN(b) /\ Key(a) <= Key(b)

FGt(a, b) == FLt(b, a)

FEq(a, b) == ~IsNaN(a) /\ ~IsNaN(b) /\ Key(a) = Key(b)

(***************************************************************************)
(* Python values.  A float is one of the records above; every other value  *)
(* is a record carrying its class.  An account instance has its slot       *)
(* storage (the attributes __slots__ declares) and, when its class has     *)
(* one, its instance __dict__.                                             *)
(***************************************************************************)
None_ == [classe |-> "NoneType", val |-> "None"]

Str(s) == [classe |-> "str", val |-> s]

Entier == [classe |-> "int", val |-> "42"]

\* an argument the caller did not pass
Omis == [k |-> "omis", v |-> 0]

\* the literals 0.0 and 0.02 of the signatures, as floats
FromDecimal(num, den) == RoundRat(num * Quanta, den)

SoldeDefaut == FromDecimal(0, 1)

TauxDefaut == FromDecimal(2, 100)

Un == FromDecimal(1, 1)

Demi == FromDecimal(1, 2)

\* method resolution order of the classes
Mro(cls) ==
    CASE cls = "CompteEpargne" -> {"CompteEpargne", "CompteBancaire", "ExportJSONMixin", "object"}
      [] cls = "CompteBancaire" -> {"CompteBancaire", "object"}
      [] OTHER -> {cls, "object"}

isinstance(x, cls) == cls \in Mro(x.classe)

\* CompteBancaire.__slots__
Slots == {"titulaire", "_solde"}

\* a fresh instance of cls, before __init__ runs
Nouveau(cls) == [classe |-> cls, slots |-> <<>>, dict |-> <<>>]

\* self.name = v : a slot when __slots__ declares the name, else __dict__
SetAttr(self, name, v) ==
    IF name \in Slots
    THEN [self EXCEPT !.slots = (name :> v) @@ @]
    ELSE [self EXCEPT !.dict = (name :> v) @@ @]

Ok == [classe |-> "", message |-> ""]

TypeError(msg) == [classe |-> "TypeError", message |-> msg]

ValueError(msg) == [classe |-> "ValueError", message |-> msg]

\* float(x) of a float
float(x) == x

\* binding of a parameter that has a default value
Param(arg, defaut) == IF arg = Omis THEN defaut ELSE arg

(***************************************************************************)
(* The methods: each returns the instance after the call and the           *)
(* exception raised (Ok when none).                                        *)
(***************************************************************************)
\* __init__ without the isinstance test of the holder
__init__sans_isinstance(self, titulaire, solde) ==
    IF FLt(solde, Zero)
    THEN [obj |-> self, err |-> ValueError("Le solde initial ne peut pas etre negatif.")]
    ELSE [obj |-> SetAttr(SetAttr(self, "titulaire", titulaire), "_solde", float(solde)),
          err |-> Ok]

__init__(self, titulaire, solde) ==
    IF ~isinstance(titulaire, "str")
    THEN [obj |-> self, err |-> TypeError("Le titulaire doit etre une chaine de caracteres.")]
    ELSE IF FLt(solde, Zero)
    THEN [obj |-> self, err |-> ValueError("Le solde initial ne peut pas etre negatif.")]
    ELSE [obj |-> SetAttr(SetAttr(self, "titulaire", titulaire), "_solde", float(solde)),
          err |-> Ok]

CompteEpargne__init__(self, titulaire, solde, taux_interet) ==
    LET base == __init__(self, titulaire, solde)
    IN  IF base.err # Ok THEN base
        ELSE IF FLt(taux_interet, Zero)
        THEN [obj |-> base.obj, err |-> ValueError("Le taux d'interet doit etre positif.")]
        ELSE [obj |-> SetAttr(base.obj, "taux_interet", taux_interet), err |-> Ok]

\* cls(titulaire, solde, taux_interet): the instance, or None_ when __init__ raises
Appeler(cls, titulaire, solde, taux_interet) ==
    LET r == IF cls = "CompteEpargne"
             THEN CompteEpargne__init__(Nouveau(cls), titulaire,
                      Param(solde, SoldeDefaut), Param(taux_interet, TauxDefaut))
             ELSE __init__(Nouveau(cls), titulaire, Param(solde, SoldeDefaut))
    IN  [obj |-> IF r.err = Ok THEN r.obj ELSE None_, err |-> r.err]

\* deposer crediting the amount before it validates it
deposer_avant_validation(self, montant) ==
    [obj |-> [self EXCEPT !.slots["_solde"] = FAdd(@, montant)],
     err |-> IF FLe(montant, Zero)
             THEN ValueError("Le montant du depot doit etre strictement positif.")
             ELSE Ok]

deposer(self, montant) ==
    IF FLe(montant, Zero)
    THEN [obj |-> self, err |-> ValueError("Le montant du depot doit etre strictement positif.")]
    ELSE [obj |-> [self EXCEPT !.slots["_solde"] = FAdd(@, montant)], err |-> Ok]

\* retirer refusing an amount equal to the balance
retirer_seuil_strict(self, montant) ==
    IF FLe(montant, Zero)
    THEN [obj |-> self, err |-> ValueError("Le montant du retrait doit etre strictement positif.")]
    ELSE IF FLe(self.slots["_solde"], montant)
    THEN [obj |-> self, err |-> ValueError("Solde insuffisant pour effectuer cette operation.")]
    ELSE [obj |-> [self EXCEPT !.slots["_solde"] = FSub(@, montant)], err |-> Ok]

\* retirer without the test of the balance
retirer_sans_decouvert(self, montant) ==
    IF FLe(montant, Zero)
    THEN [obj |-> self, err |-> ValueError("Le montant du retrait doit etre strictement positif.")]
    ELSE [obj |-> [self EXCEPT !.slots["_solde"] = FSub(@, montant)], err |-> Ok]

retirer(self, montant) ==
    IF FLe(montant, Zero)
    THEN [obj |-> self, err |-> ValueError("Le montant du retrait doit etre strictement positif.")]
    ELSE IF FGt(montant, self.slots["_solde"])
    THEN [obj |-> self, err |-> ValueError("Solde insuffisant pour effectuer cette operation.")]
    ELSE [obj |-> [self EXCEPT !.slots["_solde"] = FSub(@, montant)], err |-> Ok]

\* the property solde: getter and setter
solde(self) == self.slots["_solde"]

solde_setter(self, valeur) ==
    IF FLt(valeur, Zero)
    THEN [obj |-> self, err |-> ValueError("Le solde ne peut pas etre negatif.")]
    ELSE [obj |-> [self EXCEPT !.slots["_solde"] = valeur], err |-> Ok]

\* dict.get(key, default)
get(data, key, defaut) == IF key \in DOMAIN data THEN data[key] ELSE defaut

\* depuis_dict never reading the key solde
depuis_dict_sans_solde(cls, data) ==
    Appeler(cls, get(data, "titulaire", None_), SoldeDefaut, Omis)

depuis_dict(cls, data) ==
    LET titulaire == get(data, "titulaire", None_)
        solde_ == get(data, "solde", SoldeDefaut)
    IN  Appeler(cls, titulaire, solde_, Omis)

IsCompte(x) == isinstance(x, "CompteBancaire")

\* __eq__ comparing the instance __dict__ (the rate) as well
__eq__avec_taux(self, autre) ==
    IF ~isinstance(autre, "CompteBancaire") THEN FALSE
    ELSE /\ self.slots["titulaire"] = autre.slots["titulaire"]
         /\ FEq(self.slots["_solde"], autre.slots["_solde"])
         /\ self.dict = autre.dict

__eq__(self, autre) ==
    IF ~isinstance(autre, "CompteBancaire") THEN FALSE
    ELSE /\ self.slots["titulaire"] = autre.slots["titulaire"]
         /\ FEq(self.slots["_solde"], autre.slots["_solde"])

\* the expression a == b: a's __eq__, or the reflected b.__eq__(a) when a's
\* class does not know b's
PyEq(a, b) ==
    IF IsCompte(a) THEN __eq__(a, b)
    ELSE IF IsCompte(b) THEN __eq__(b, a)
    ELSE a = b

ajouter_interets(self) ==
    LET interets == FMul(solde(self), self.dict["taux_interet"])
    IN  [obj |-> [self EXCEPT !.slots["_solde"] = FAdd(@, interets)], err |-> Ok]

\* json.dumps of a float (allow_nan is left at its default)
JsonFloat(x) ==
    IF IsNaN(x) THEN [tok |-> "NaN", v |-> 0, s |-> ""]
    ELSE IF x.k = "inf"
    THEN [tok |-> IF x.v > 0 THEN "Infinity" ELSE "-Infinity", v |-> 0, s |-> ""]
    ELSE [tok |-> "number", v |-> x.v, s |-> ""]

\* json.dumps of a str
JsonStr(x) == [tok |-> "string", v |-> 0, s |-> x.val]

\* json.dumps(self.__dict__, ...): the members of the document
to_json(self) == [key \in DOMAIN self.dict |-> JsonFloat(self.dict[key])]

\* the lines the wrapper of journaliser_operation prints around the call
\* whose outcome is r (their text is not modelled): the two closing lines
\* are not reached when the method raises
journaliser_operation(action, r) ==
    <<[ligne |-> "debut", action |-> action],
      [ligne |-> "tentative", action |-> action]>>
    \o (IF r.err = Ok
        THEN <<[ligne |-> "fin", action |-> action], [ligne |-> "separateur", action |-> action]>>
        ELSE <<>>)

(***************************************************************************)
(* The calls and their inputs.  compte is the account the caller holds     *)
(* (None_ before a construction and after one that raised); avant, op,     *)
(* args, erreur, retour and journal record the last call: the account      *)
(* before it, the method, its arguments, the exception it raised, the      *)
(* value it returned and the lines it printed.  origine is the balance     *)
(* before the deposit when the last two calls were a successful            *)
(* deposer(d) followed by retirer(d).                                      *)
(***************************************************************************)
Classes == {"CompteBancaire", "CompteEpargne"}

Titulaires == {Str("Alice"), Str(""), None_, Entier}

Montants == {NaN, PInf, NInf, Fin(-1), Zero, Fin(1), Fin(3), Un, Fin(MaxFinite)}

TauxArgs == {Omis, NaN, PInf, Fin(-1), Zero, Demi, Un}

\* the records given to depuis_dict: each key present or absent
Records ==
    { [key \in D |-> IF key = "titulaire" THEN t ELSE s] :
        D \in SUBSET {"titulaire", "solde"},
        t \in {Str("Alice"), Str(""), None_},
        s \in {NaN, PInf, Fin(-1), Zero, Un} }

SansArgs == [aucun |-> TRUE]

NonSuivi == [k |-> "aucun", v |-> 0]

Init ==
    /\ compte = None_
    /\ avant = None_
    /\ op = "debut"
    /\ args = SansArgs
    /\ erreur = Ok
    /\ retour = None_
    /\ journal = <<>>
    /\ origine = NonSuivi

\* compte = cls(titulaire, solde, taux_interet)
Construire(cls, titulaire, solde_, taux) ==
    /\ compte = None_
    /\ LET r == Appeler(cls, titulaire, solde_, taux)
       IN  /\ compte' = r.obj
           /\ retour' = r.obj
           /\ erreur' = r.err
    /\ avant' = None_
    /\ op' = "__init__"
    /\ args' = [classe |-> cls, titulaire |-> titulaire, solde |-> solde_, taux |-> taux]
    /\ journal' = <<>>
    /\ origine' = NonSuivi

\* compte = cls.depuis_dict(data)
DepuisDict(cls, data) ==
    /\ compte = None_
    /\ LET r == depuis_dict(cls, data)
       IN  /\ compte' = r.obj
           /\ retour' = r.obj
           /\ erreur' = r.err
    /\ avant' = None_
    /\ op' = "depuis_dict"
    /\ args' = [classe |-> cls, data |-> data]
    /\ journal' = <<>>
    /\ origine' = NonSuivi

\* compte.deposer(montant)
Deposer(montant) ==
    /\ IsCompte(compte)
    /\ LET r == deposer(compte, montant)
       IN  /\ compte' = r.obj
           /\ erreur' = r.err
           /\ journal' = journaliser_operation("Depot", r)
    /\ avant' = compte
    /\ op' = "deposer"
    /\ args' = [montant |-> montant]
    /\ retour' = None_
    /\ origine' = NonSuivi

\* compte.retirer(montant)
Retirer(montant) ==
    /\ IsCompte(compte)
    /\ LET r == retirer(compte, montant)
       IN  /\ compte' = r.obj
           /\ erreur' = r.err
           /\ journal' = journaliser_operation("Retrait", r)
    /\ avant' = compte
    /\ op' = "retirer"
    /\ args' = [montant |-> montant]
    /\ retour' = None_
    /\ origine' = IF op = "deposer" /\ erreur = Ok /\ args.montant = montant
                  THEN solde(avant)
                  ELSE NonSuivi

\* compte.solde = valeur
SetSolde(valeur) ==
    /\ IsCompte(compte)
    /\ LET r == solde_setter(compte, valeur)
       IN  /\ compte' = r.obj
           /\ erreur' = r.err
    /\ avant' = compte
    /\ op' = "solde_setter"
    /\ args' = [valeur |-> valeur]
    /\ retour' = None_
    /\ journal' = <<>>
    /\ origine' = NonSuivi

\* compte.ajouter_interets()
AjouterInterets ==
    /\ IsCompte(compte)
    /\ compte.classe = "CompteEpargne"
    /\ LET r == ajouter_interets(compte)
       IN  /\ compte' = r.obj
           /\ erreur' = r.err
    /\ avant' = compte
    /\ op' = "ajouter_interets"
    /\ args' = SansArgs
    /\ retour' = None_
    /\ journal' = <<[ligne |-> "interets", action |-> "Interets"]>>
    /\ origine' = NonSuivi

\* compte.to_json()
ToJson ==
    /\ IsCompte(compte)
    /\ compte.classe = "CompteEpargne"
    /\ retour' = to_json(compte)
    /\ avant' = compte
    /\ op' = "to_json"
    /\ args' = SansArgs
    /\ erreur' = Ok
    /\ journal' = <<>>
    /\ origine' = NonSuivi
    /\ UNCHANGED compte

\* the values an account is compared with: values that are no account, and
\* accounts of either class with the same or another holder, balance and rate
Autres ==
    IF ~IsCompte(compte) THEN {}
    ELSE {None_, Entier, Str("Alice")}
         \cup { Appeler(cls, t, s, x).obj :
                  cls \in Classes,
                  t \in {compte.slots["titulaire"], Str("Bob")},
                  s \in {solde(compte), Fin(1)},
                  x \in {Omis, Un} }

\* compte == autre and autre == compte
Comparer(autre) ==
    /\ IsCompte(compte)
    /\ retour' = [direct |-> PyEq(compte, autre), reflechi |-> PyEq(autre, compte)]
    /\ avant' = compte
    /\ op' = "__eq__"
    /\ args' = [autre |-> autre]
    /\ erreur' = Ok
    /\ journal' = <<>>
    /\ origine' = NonSuivi
    /\ UNCHANGED compte

Next ==
    \/ \E cls \in Classes, t \in Titulaires, s \in Montants \cup {Omis}, x \in TauxArgs :
         /\ (cls = "CompteBancaire" => x = Omis)
         /\ Construire(cls, t, s, x)
    \/ \E cls \in Classes, data \in Records : DepuisDict(cls, data)
    \/ \E m \in Montants : Deposer(m)
    \/ \E m \in Montants : Retirer(m)
    \/ \E v \in Montants : SetSolde(v)
    \/ AjouterInterets
    \/ ToJson
    \/ \E autre \in Autres : Comparer(autre)

Spec == Init /\ [][Next]_vars

(***************************************************************************)
(* The properties.  titulaire(c), taux(c) read an account's fields;        *)
(* InvalidArgument is the specification's name for the exceptions the      *)
(* validations raise (TypeError for the holder, ValueError otherwise).     *)
(***************************************************************************)
titulaire(c) == c.slots["titulaire"]

taux(c) == c.dict["taux_interet"]

InvalidArgument == {"TypeError", "ValueError"}

Insuffisant == ValueError("Solde insuffisant pour effectuer cette operation.")

\* C1: the balance of every constructed account is >= 0, after construction
\* and after every deposer, retirer, balance assignment and ajouter_interets.
C1_SoldeNonNegatif == IsCompte(compte) => FLe(Zero, solde(compte))

\* C2 as stated: retirer with montant > solde raises InsufficientFunds, a kind
\* of error distinct from InvalidArgument, and leaves the balance unchanged;
\* with 0 < montant <= solde it succeeds and the balance decreases by montant
\* (the subtraction being the one of floats).
C2_RetraitOriginal ==
    op = "retirer" =>
        LET m == args.montant
            b == solde(avant)
            n == solde(compte)
        IN  /\ FGt(m, b) =>
                 /\ erreur # Ok
                 /\ erreur.classe \notin InvalidArgument
                 /\ compte = avant
            /\ (FLt(Zero, m) /\ FLe(m, b)) =>
                 /\ erreur = Ok
                 /\ n = FSub(b, m)

\* C2 amended: retirer with montant > solde raises ValueError, the class the
\* invalid amounts raise too (told apart by its message only), and leaves the
\* account unchanged; with 0 < montant <= solde it succeeds and the balance
\* decreases by montant (the subtraction being the one of floats: exactly
\* solde - montant when that is a float, never below 0 nor above the old
\* balance when the balance is finite).
C2_Retrait ==
    op = "retirer" =>
        LET m == args.montant
            b == solde(avant)
            n == solde(compte)
        IN  /\ FGt(m, b) =>
                 /\ erreur = Insuffisant
                 /\ erreur.classe \in InvalidArgument
                 /\ compte = avant
            /\ (FLt(Zero, m) /\ FLe(m, b)) =>
                 /\ erreur = Ok
                 /\ n = FSub(b, m)
                 /\ titulaire(compte) = titulaire(avant)
                 /\ compte.dict = avant.dict
                 /\ IsFinite(b) =>
                      /\ IsFinite(n) /\ 0 <= n.v /\ n.v <= b.v
                      /\ (b.v - m.v) \in Repr => n.v = b.v - m.v
                      /\ m = b => n = Zero

C2_Witness ==
    /\ op = "retirer"
    /\ FLt(Zero, solde(avant))
    /\ FGt(args.montant, solde(avant))
    /\ erreur = Insuffisant

\* C3: deposer and retirer with montant <= 0, and the balance assignment with
\* valeur < 0, raise InvalidArgument and leave every field of the account
\* unchanged.
C3_ValidationAvantMutation ==
    /\ (op \in {"deposer", "retirer"} /\ FLe(args.montant, Zero)) =>
         /\ erreur # Ok
         /\ erreur.classe \in InvalidArgument
         /\ compte = avant
    /\ (op = "solde_setter" /\ FLt(args.valeur, Zero)) =>
         /\ erreur # Ok
         /\ erreur.classe \in InvalidArgument
         /\ compte = avant

C3_Witness ==
    /\ op = "deposer"
    /\ FLt(args.montant, Zero)
    /\ FLt(Zero, solde(avant))
    /\ erreur.classe = "ValueError"

\* C4: the document to_json returns for a savings account has the holder, the
\* current balance and the interest rate, each with its current value.
C4_ExportComplet ==
    op = "to_json" =>
        /\ "titulaire" \in DOMAIN retour
        /\ retour["titulaire"] = JsonStr(titulaire(compte))
        /\ \E key \in {"solde", "_solde"} :
             /\ key \in DOMAIN retour
             /\ retour[key] = JsonFloat(solde(compte))
        /\ "taux_interet" \in DOMAIN retour
        /\ retour["taux_interet"] = JsonFloat(taux(compte))

\* C5: construction succeeds only when the holder is a string and the initial
\* balance is >= 0 and, for a savings account, the rate is >= 0; every other
\* construction fails with InvalidArgument and yields no account; on success
\* the stored balance and rate are the given ones (defaults 0.0 and 0.02).
C5_Construction ==
    op = "__init__" =>
        LET s == Param(args.solde, SoldeDefaut)
            x == Param(args.taux, TauxDefaut)
            valide == /\ isinstance(args.titulaire, "str")
                      /\ FLe(Zero, s)
                      /\ args.classe = "CompteEpargne" => FLe(Zero, x)
        IN  /\ (erreur = Ok) <=> valide
            /\ erreur # Ok => erreur.classe \in InvalidArgument /\ compte = None_
            /\ (erreur # Ok /\ ~isinstance(args.titulaire, "str")) =>
                 erreur.classe = "TypeError"
            /\ erreur = Ok =>
                 /\ compte.classe = args.classe
                 /\ solde(compte) = s
                 /\ args.classe = "CompteEpargne" => taux(compte) = x

\* C6: depuis_dict gives what the constructor gives for the record's holder
\* and balance: an account equal to the constructed one when the holder is a
\* string and the balance >= 0, balance 0.0 when the balance key is absent, a
\* rejection when the holder key is absent, and the constructor's rejection of
\* a negative balance.
C6_DepuisDict ==
    op = "depuis_dict" =>
        LET data == args.data
            cls == args.classe
            chaine == "titulaire" \in DOMAIN data /\ isinstance(data["titulaire"], "str")
        IN  /\ (chaine /\ "solde" \in DOMAIN data /\ FLe(Zero, data["solde"])) =>
                 /\ erreur = Ok
                 /\ compte.classe = cls
                 /\ titulaire(compte) = data["titulaire"]
                 /\ solde(compte) = data["solde"]
                 /\ PyEq(compte, Appeler(cls, data["titulaire"], data["solde"], Omis).obj)
            /\ (chaine /\ "solde" \notin DOMAIN data) =>
                 /\ erreur = Ok
                 /\ solde(compte) = Zero
                 /\ PyEq(compte, Appeler(cls, data["titulaire"], Omis, Omis).obj)
            /\ "titulaire" \notin DOMAIN data =>
                 /\ erreur.classe = "TypeError"
                 /\ compte = None_
            /\ (chaine /\ "solde" \in DOMAIN data /\ FLt(data["solde"], Zero)) =>
                 /\ erreur = Appeler(cls, data["titulaire"], data["solde"], Omis).err
                 /\ erreur.classe = "ValueError"
                 /\ compte = None_

C6_Witness ==
    /\ op = "depuis_dict"
    /\ erreur = Ok
    /\ "solde" \in DOMAIN args.data
    /\ FLt(Zero, args.data["solde"])
    /\ IsFinite(args.data["solde"])
    /\ solde(compte) = args.data["solde"]

\* C7: compte == autre is true exactly when autre is an account (of either
\* class) with the same holder and a balance equal as floats; the interest
\* rate plays no part, and autre == compte gives the same answer.
C7_Egalite ==
    op = "__eq__" =>
        LET a == args.autre
        IN  /\ retour.direct <=>
                 /\ a.classe \in {"CompteBancaire", "CompteEpargne"}
                 /\ titulaire(a) = titulaire(compte)
                 /\ ~IsNaN(solde(a))
                 /\ ~IsNaN(solde(compte))
                 /\ Key(solde(a)) = Key(solde(compte))
            /\ retour.reflechi = retour.direct

C7_Witness ==
    /\ op = "__eq__"
    /\ compte.classe = "CompteEpargne"
    /\ IsCompte(args.autre)
    /\ args.autre.dict # compte.dict
    /\ retour.direct
    /\ retour.reflechi

\* C8 as stated (on the finite floats): for every account and every d > 0,
\* deposer(d) then retirer(d) both succeed and the balance is exactly the one
\* before the deposit, the other fields being unchanged.
C8_AllerRetourOriginal ==
    /\ (op = "deposer" /\ FLt(Zero, args.montant)) => erreur = Ok
    /\ (origine # NonSuivi /\ IsFinite(origine)
          /\ FLt(Zero, args.montant) /\ IsFinite(args.montant)) =>
         /\ erreur = Ok
         /\ solde(compte) = origine
         /\ titulaire(compte) = titulaire(avant)
         /\ compte.dict = avant.dict

\* C8 amended: for every account and every d > 0, deposer(d) then retirer(d)
\* both succeed and leave the holder and the rate unchanged; the balance is
\* the one before the deposit whenever that balance, d and their sum are
\* finite floats (the deposit neither rounded nor overflowed).
C8_AllerRetour ==
    /\ (op = "deposer" /\ FLt(Zero, args.montant)) =>
         /\ erreur = Ok
         /\ titulaire(compte) = titulaire(avant)
         /\ compte.dict = avant.dict
    /\ (origine # NonSuivi /\ FLt(Zero, args.montant)) =>
         /\ erreur = Ok
         /\ titulaire(compte) = titulaire(avant)
         /\ compte.dict = avant.dict
         /\ (/\ IsFinite(origine)
             /\ IsFinite(args.montant)
             /\ (origine.v + args.montant.v) \in Repr) => solde(compte) = origine

C8_Witness ==
    /\ op = "retirer"
    /\ origine # NonSuivi
    /\ FLt(Zero, origine)
    /\ FLt(Zero, args.montant)
    /\ erreur = Ok
    /\ solde(compte) = origine

\* C9: ajouter_interets never fails; the new balance is the balance plus
\* balance * rate (in float arithmetic); a zero balance or a zero rate leaves
\* the balance unchanged; the holder and the rate are unchanged.
C9_Interets ==
    op = "ajouter_interets" =>
        LET b == solde(avant)
            r == taux(avant)
        IN  /\ erreur = Ok
            /\ solde(compte) = FAdd(b, FMul(b, r))
            /\ (FEq(b, Zero) \/ FEq(r, Zero)) => solde(compte) = b
            /\ titulaire(compte) = titulaire(avant)
            /\ compte.dict = avant.dict

\* the holder a construction call was given
Fourni == IF op' = "depuis_dict" THEN get(args'.data, "titulaire", None_) ELSE args'.titulaire

\* C10 as stated: the holder of every account is a non-empty string, the one
\* given at construction, and no call changes it.
C10_TitulaireOriginal ==
    [][IsCompte(compte') =>
         /\ isinstance(titulaire(compte'), "str")
         /\ titulaire(compte').val # ""
         /\ IF IsCompte(compte)
            THEN titulaire(compte') = titulaire(compte)
            ELSE titulaire(compte') = Fourni]_vars

\* C10 amended: the holder of every account is a string (possibly empty), the
\* one given at construction, and no call changes it.
C10_Titulaire ==
    [][IsCompte(compte') =>
         /\ isinstance(titulaire(compte'), "str")
         /\ IF IsCompte(compte)
            THEN titulaire(compte') = titulaire(compte)
            ELSE titulaire(compte') = Fourni]_vars

C10_Witness ==
    /\ op = "retirer"
    /\ erreur = Ok
    /\ titulaire(compte) = Str("")
    /\ titulaire(avant) = Str("")
    /\ solde(compte) # solde(avant)
====
